---- MODULE Spec2Model ----
(***************************************************************************)
(* The account subsystem of team-tesla-backend: the user, Token and OTP    *)
(* tables (account/models.py) and the request handlers of account/views.py *)
(* that read and write them.  One action per database operation of a       *)
(* handler, so that requests interleave where the code lets them.          *)
(***************************************************************************)
EXTENDS Integers, Sequences, FiniteSets, TLC

\* ------------------------------------------------------------- bounds
NumOtp == 2             \* values generate_otp() may return
NumJti == 2             \* distinct refresh tokens mintable at one instant
MaxTokenId == 2         \* Token rows ever inserted by sign-in
MaxTime == 2            \* clock ticks (minutes) of the token specifications
MaxOtpTime == 6         \* clock ticks (minutes) of the OTP specifications
AccountSignIns == 1     \* Token rows inserted in the specification of every view

\* ---------------------------------------------------------- constants
ExpMinutes == 5         \* timezone.timedelta(minutes=5)
RefreshLife == 1        \* minutes a refresh token verifies for
NULL == -1              \* the SQL NULL of OTP.generated_otp

Emails == {"a@x.io", "b@x.io"}     \* the e-mail addresses requests name
Passwords == {"pw1", "pw2"}        \* the raw passwords requests carry
OtpValues == 1..NumOtp
Jtis == 1..NumJti
Procs == {"r1", "r2"}   \* request threads of the server

VARIABLES
  users,        \* CustomUser table: sequence indexed by the row id
  tokens,       \* Token table: set of rows
  nextTokenId,  \* Token's auto-increment primary key
  otps,         \* OTP table: set of rows, keyed by the owning user (OneToOne)
  now,          \* timezone.now(), in minutes
  pc,           \* where each request thread is in its handler
  loc,          \* the request a thread is serving and its handler's locals
  last          \* the exchange the latest step completed, if it completed one

vars == <<users, tokens, nextTokenId, otps, now, pc, loc, last>>

\* ----------------------------------------------------- pure functions
\* user.set_password(raw): a one-way hash, never the raw password itself.
set_password(raw) == [algo |-> "pbkdf2_sha256", of |-> raw]

\* user.check_password(raw) against a stored hash.
check_password(hash, raw) == hash = set_password(raw)

\* CustomAuthentication.get_access_token(claims): embeds the claims.
get_access_token(claim, t) == [user_id |-> claim, iat |-> t]

\* CustomAuthentication.get_refresh_token(): the tokens it can mint at time t.
get_refresh_token(t) == {[jti |-> j, iat |-> t] : j \in Jtis}

\* CustomAuthentication.verify_token(token): signed by us and not expired.
verify_token(tok, t) == tok.jti \in Jtis /\ t - tok.iat < RefreshLife

\* One member of a set: the single value a specification fixes an input to
\* when its claims do not depend on it.
Only(S) == {CHOOSE x \in S : TRUE}

NoAccess == [user_id |-> 0, iat |-> 0]
NoCookie == [jti |-> 0, iat |-> 0]
NoLoc == [op |-> "none"]
NoLast == [op |-> "none"]

Response(st, msg) == [status |-> st, message |-> msg,
                      access_token |-> NoAccess, cookie |-> NoCookie]

TokenResponse(access, refresh) ==
  [status |-> 200, message |-> "", access_token |-> access, cookie |-> refresh]

UserIds == 1..Len(users)

\* CustomUser.objects.get(email=...): the ids of the rows with that e-mail.
UsersByEmail(email) == {u \in UserIds : users[u].email = email}

Idle(p) == pc[p] = "idle"

\* The handler returns: the thread is free again and the exchange is on record
\* with the handler's locals as they were at the return.
Reply(p, l, response) ==
  /\ pc' = [pc EXCEPT ![p] = "idle"]
  /\ loc' = [loc EXCEPT ![p] = NoLoc]
  /\ last' = [op |-> l.op, proc |-> p, loc |-> l, resp |-> response]

\* The handler goes on to its next database operation.
Goto(p, label, l) ==
  /\ pc' = [pc EXCEPT ![p] = label]
  /\ loc' = [loc EXCEPT ![p] = l]
  /\ last' = NoLast

\* ------------------------------------------------------------- set-up
Init ==
  /\ users = <<>>
  /\ tokens = {}
  /\ nextTokenId = 1
  /\ otps = {}
  /\ now = 0
  /\ pc = [p \in Procs |-> "idle"]
  /\ loc = [p \in Procs |-> NoLoc]
  /\ last = NoLast

\* Time passes between any two database operations.
TickTo(tmax) ==
  /\ now < tmax
  /\ now' = now + 1
  /\ last' = NoLast
  /\ UNCHANGED <<users, tokens, nextTokenId, otps, pc, loc>>

\* A manager that creates the account already verified.
create_user_verified(email, password) ==
  [email |-> email, password |-> set_password(password), email_verified |-> TRUE]

\* CustomUserManager.create_user: the new row, email_verified defaulting False.
create_user(email, password) ==
  [email |-> email, password |-> set_password(password), email_verified |-> FALSE]

\* SignUpView.post: the serializer validates (e-mail unique), creates the user
\* through the manager and the user's OTP record beside it.
SignUp_post(p, emails, passwords, generate_otp) ==
  \E email \in emails, password \in passwords, otp \in generate_otp :
    LET l == [op |-> "signup", email |-> email, password |-> password] IN
    /\ Idle(p)
    /\ IF UsersByEmail(email) # {}
         THEN /\ Reply(p, l, Response(400, "user with this email already exists."))
              /\ UNCHANGED <<users, otps>>
         ELSE /\ users' = Append(users, create_user(email, password))
              /\ otps' = otps \cup {[user_id |-> Len(users) + 1,
                                     generated_otp |-> otp, updated_at |-> now]}
              /\ Reply(p, l, Response(201, "Account created successfully."))
    /\ UNCHANGED <<tokens, nextTokenId, now>>

\* CustomUserManager.create_superuser: create_user, then the staff flags (no
\* column of the rows here).
create_superuser(email, password) == create_user(email, password)

\* manage.py createsuperuser: a user row through the manager and no OTP record;
\* the unique e-mail refuses a second row for the address.
CreateSuperuser(emails, passwords) ==
  \E email \in emails, password \in passwords :
    /\ UsersByEmail(email) = {}
    /\ users' = Append(users, create_superuser(email, password))
    /\ last' = NoLast
    /\ UNCHANGED <<tokens, nextTokenId, otps, now, pc, loc>>

\* ------------------------------------------------------------ sign-in
\* An authentication that looks the account up and never checks the password.
authenticate_anyPassword(email, password) == UsersByEmail(email)

\* django.contrib.auth.authenticate(username, password): the user, or none.
authenticate(email, password) ==
  {u \in UsersByEmail(email) : check_password(users[u].password, password)}

\* Token.objects.filter(user_id=u): the rows of a user.
RowsOf(u) == {t \in tokens : t.user_id = u}

\* A Token table without the unique index on user_id.
UniqueViolation_none(rows, uid) == FALSE

\* Token.user_id is a OneToOneField: the table holds a unique index on it.
UniqueViolation(rows, uid) == \E t \in rows : t.user_id = uid

\* Sign-ins that have authenticated and not yet inserted their Token row.
SignInsInFlight == {q \in Procs : pc[q] \in {"signin_delete", "signin_create"}}

\* SignInView.post, to the minting of the pair: 400 on a malformed body
\* (is_valid raises), 400 if authenticate finds no user.
SignIn_authenticate(p, emails, maxId) ==
  \E email \in emails, password \in Passwords, valid \in BOOLEAN,
     refresh \in get_refresh_token(now) :
    LET l == [op |-> "signin", email |-> email, password |-> password,
              valid |-> valid]
        found == authenticate(email, password) IN
    /\ Idle(p)
    /\ nextTokenId + Cardinality(SignInsInFlight) <= maxId
    /\ CASE ~valid ->
              Reply(p, l, Response(400, "serializer errors"))
         [] valid /\ found = {} ->
              Reply(p, l, Response(400, "Invalid account credentials"))
         [] OTHER ->
              \E user \in found :
                Goto(p, "signin_delete",
                     [op |-> "signin", email |-> email, password |-> password,
                      valid |-> valid, user |-> user,
                      access |-> get_access_token(user, now),
                      refresh |-> refresh, deleted |-> {}])
    /\ UNCHANGED <<users, tokens, nextTokenId, otps, now>>

\* A sign-in that forgets to delete the prior row.
SignIn_delete_keep(p) ==
  /\ pc[p] = "signin_delete"
  /\ tokens' = tokens
  /\ Goto(p, "signin_create", loc[p])
  /\ UNCHANGED <<users, nextTokenId, otps, now>>

\* Token.objects.filter(user_id=user).delete(); the call returns what it deleted.
SignIn_delete(p) ==
  /\ pc[p] = "signin_delete"
  /\ tokens' = {t \in tokens : t.user_id # loc[p].user}
  /\ Goto(p, "signin_create",
          [loc[p] EXCEPT !.deleted = {t.refresh : t \in RowsOf(loc[p].user)}])
  /\ UNCHANGED <<users, nextTokenId, otps, now>>

\* Token.objects.create(...), then the response with the cookie.  The insert
\* raises IntegrityError when the user already owns a row.
SignIn_create(p) ==
  /\ pc[p] = "signin_create"
  /\ IF UniqueViolation(tokens, loc[p].user)
       THEN /\ Reply(p, loc[p], Response(500, "IntegrityError"))
            /\ UNCHANGED <<tokens, nextTokenId>>
       ELSE /\ tokens' = tokens \cup {[id |-> nextTokenId,
                                       user_id |-> loc[p].user,
                                       access |-> loc[p].access,
                                       refresh |-> loc[p].refresh]}
            /\ nextTokenId' = nextTokenId + 1
            /\ Reply(p, loc[p], TokenResponse(loc[p].access, loc[p].refresh))
  /\ UNCHANGED <<users, otps, now>>

\* ------------------------------------------------------------ refresh
\* The refresh_token cookie of a request: absent, or any token value.
Cookies(tmax) == {NoCookie} \cup {[jti |-> j, iat |-> t] : j \in Jtis, t \in 0..tmax}

\* Token.objects.get(refresh=cookie): the matching rows.
TokenByRefresh(cookie) == {t \in tokens : t.refresh = cookie}

\* The id the refreshed access token is minted for.
RefreshClaim(active_token) == active_token.id

\* A refresh that skips the verification of the cookie.
TokenRejected_never(cookie) == FALSE

\* if not self.auth.verify_token(refresh_token_cookie)
TokenRejected(cookie) == ~verify_token(cookie, now)

\* RefreshTokenView.get, to the minting of the new pair.
RefreshToken_get(p, tmax) ==
  \E cookie \in Cookies(tmax), refresh \in get_refresh_token(now) :
    LET l == [op |-> "refresh", cookie |-> cookie]
        found == TokenByRefresh(cookie) IN
    /\ Idle(p)
    /\ CASE found = {} ->
              Reply(p, l, Response(400, "Refresh token not found."))
         [] Cardinality(found) > 1 ->
              Reply(p, l, Response(500, "MultipleObjectsReturned"))
         [] OTHER ->
              LET active_token == CHOOSE t \in found : TRUE IN
                IF TokenRejected(cookie)
                  THEN Reply(p, l, Response(400, "Refresh token invalid or expired."))
                  ELSE Goto(p, "refresh_save",
                            [op |-> "refresh", cookie |-> cookie,
                             owner |-> active_token.user_id,
                             active_token |->
                               [active_token EXCEPT
                                  !.access = get_access_token(RefreshClaim(active_token), now),
                                  !.refresh = refresh]])
    /\ UNCHANGED <<users, tokens, nextTokenId, otps, now>>

\* Model.save(): UPDATE the row with this primary key, INSERT when no row has it.
SaveToken(row) ==
  IF \E t \in tokens : t.id = row.id
    THEN {t \in tokens : t.id # row.id} \cup {row}
    ELSE tokens \cup {row}

\* active_token.save(), then the response with the new cookie.
RefreshToken_save(p) ==
  /\ pc[p] = "refresh_save"
  /\ LET row == loc[p].active_token IN
       IF (\A t \in tokens : t.id # row.id) /\ UniqueViolation(tokens, row.user_id)
         THEN /\ Reply(p, loc[p], Response(500, "IntegrityError"))
              /\ UNCHANGED tokens
         ELSE /\ tokens' = SaveToken(row)
              /\ Reply(p, loc[p], TokenResponse(row.access, row.refresh))
  /\ UNCHANGED <<users, nextTokenId, otps, now>>

\* --------------------------------------------------------- resend OTP
\* A get_or_create: the lookup makes up a record for a user who has none.
OtpByEmail_orCreate(email) ==
  {o \in otps : o.user_id \in UsersByEmail(email)}
    \cup {[user_id |-> u, generated_otp |-> NULL, updated_at |-> now] :
            u \in {w \in UsersByEmail(email) : \A o \in otps : o.user_id # w}}

\* OTP.objects.get(user_id__email=email): the matching rows.
OtpByEmail(email) == {o \in otps : o.user_id \in UsersByEmail(email)}

\* A save without auto_now: the row keeps the timestamp it was read with.
SaveOtp_keepTime(row) == {o \in otps : o.user_id # row.user_id} \cup {row}

\* user_otp.save(): UPDATE of the row of this owner; auto_now stamps updated_at.
SaveOtp(row) ==
  {o \in otps : o.user_id # row.user_id} \cup {[row EXCEPT !.updated_at = now]}

\* ResendOTPView.post, to the lookup of the record: 400 on a malformed body,
\* 404 when no record belongs to the e-mail.
ResendOTP_get(p, generate_otp) ==
  \E email \in Emails, otp \in generate_otp, valid \in BOOLEAN :
    LET l == [op |-> "resend", email |-> email, valid |-> valid, otp |-> otp,
              sent |-> 0]
        found == OtpByEmail(email) IN
    /\ Idle(p)
    /\ CASE ~valid ->
              Reply(p, l, Response(400, "serializer errors"))
         [] valid /\ found = {} ->
              Reply(p, l, Response(404, "Email not associated to user or otp"))
         [] OTHER ->
              \E user_otp \in found :
                Goto(p, "resend_save",
                     [op |-> "resend", email |-> email, valid |-> valid,
                      otp |-> otp, sent |-> 0, user_otp |-> user_otp,
                      previous |-> user_otp])
    /\ UNCHANGED <<users, tokens, nextTokenId, otps, now>>

\* user_otp.generated_otp = otp; user_otp.save()
ResendOTP_save(p) ==
  /\ pc[p] = "resend_save"
  /\ LET user_otp == [loc[p].user_otp EXCEPT !.generated_otp = loc[p].otp] IN
       /\ otps' = SaveOtp(user_otp)
       /\ Goto(p, "resend_send",
               [loc[p] EXCEPT !.user_otp = [user_otp EXCEPT !.updated_at = now]])
  /\ UNCHANGED <<users, tokens, nextTokenId, now>>

\* A handler that withdraws the new code when the dispatch fails.
DispatchFailed_rollback(p, l) ==
  /\ Reply(p, l, Response(500, "Email sending error"))
  /\ otps' = {o \in otps : o.user_id # l.user_otp.user_id}
               \cup {[l.user_otp EXCEPT !.generated_otp = NULL]}

\* except Exception: the handler answers 500 and leaves the record as saved.
DispatchFailed(p, l) ==
  /\ Reply(p, l, Response(500, "Email sending error"))
  /\ UNCHANGED otps

\* send_email(...) inside try/except: 200 when it returns, 500 when it raises.
\* The exchange on record keeps the request, the record as saved and the number
\* of dispatches, not the record as it was read.
ResendOTP_send(p) ==
  /\ pc[p] = "resend_send"
  /\ LET l == [op |-> "resend", email |-> loc[p].email, valid |-> loc[p].valid,
               otp |-> loc[p].otp, sent |-> loc[p].sent + 1,
               user_otp |-> loc[p].user_otp] IN
       \E delivered \in BOOLEAN :
         IF delivered
           THEN /\ Reply(p, l, Response(200, "OTP sent successful"))
                /\ UNCHANGED otps
           ELSE DispatchFailed(p, l)
  /\ UNCHANGED <<users, tokens, nextTokenId, now>>

\* ------------------------------------------------------- validate OTP
\* The numeric codes a validate-OTP request may carry.
OtpInputs == 0..NumOtp

\* A lookup that takes any pending record, whatever its value.
OtpByValue_any(otp) == {o \in otps : o.generated_otp # NULL}

\* OTP.objects.get(generated_otp=otp): the matching rows (NULL matches nothing).
OtpByValue(otp) == {o \in otps : o.generated_otp # NULL /\ o.generated_otp = otp}

\* An expiry check that also rejects the boundary.
Expired_atBoundary(otp_time) == otp_time >= ExpMinutes

\* otp_time > exp_time
Expired(otp_time) == otp_time > ExpMinutes

\* ValidateOTPView.post, to the expiry check: 400 on a malformed body, 404 when
\* no record holds the value, 400 when the record is too old.
ValidateOTP_get(p) ==
  \E otp \in OtpInputs, valid \in BOOLEAN :
    LET l == [op |-> "validate", otp |-> otp, valid |-> valid]
        found == OtpByValue(otp) IN
    /\ Idle(p)
    /\ CASE ~valid ->
              Reply(p, l, Response(400, "serializer errors"))
         [] valid /\ found = {} ->
              Reply(p, l, Response(404, "Invalid OTP"))
         [] valid /\ Cardinality(found) > 1 ->
              Reply(p, l, Response(500, "MultipleObjectsReturned"))
         [] OTHER ->
              LET user_otp == CHOOSE o \in found : TRUE
                  otp_time == now - user_otp.updated_at
                  m == [op |-> "validate", otp |-> otp, valid |-> valid,
                        user_otp |-> user_otp, otp_time |-> otp_time] IN
                IF Expired(otp_time)
                  THEN Reply(p, m, Response(400, "Expired OTP"))
                  ELSE Goto(p, "validate_clear", m)
    /\ UNCHANGED <<users, tokens, nextTokenId, otps, now>>

\* if user_otp.generated_otp == otp: user_otp.generated_otp = None; user_otp.save()
ValidateOTP_clear(p) ==
  /\ pc[p] = "validate_clear"
  /\ LET user_otp == loc[p].user_otp IN
       IF user_otp.generated_otp = loc[p].otp
         THEN /\ otps' = SaveOtp([user_otp EXCEPT !.generated_otp = NULL])
              /\ Goto(p, "validate_fetch",
                      [loc[p] EXCEPT !.user_otp = [user_otp EXCEPT
                                                     !.generated_otp = NULL,
                                                     !.updated_at = now]])
         ELSE /\ otps' = otps
              /\ Goto(p, "validate_fetch", loc[p])
  /\ UNCHANGED <<users, tokens, nextTokenId, now>>

\* with transaction.atomic(): user_otp.user_id loads the owning user row.
ValidateOTP_fetch(p) ==
  /\ pc[p] = "validate_fetch"
  /\ Goto(p, "validate_save",
          [op |-> "validate", otp |-> loc[p].otp, valid |-> loc[p].valid,
           user_otp |-> loc[p].user_otp, otp_time |-> loc[p].otp_time,
           user |-> users[loc[p].user_otp.user_id]])
  /\ UNCHANGED <<users, tokens, nextTokenId, otps, now>>

\* user.email_verified = True; user.save() writes every column of the row read.
ValidateOTP_save(p) ==
  /\ pc[p] = "validate_save"
  /\ users' = [users EXCEPT ![loc[p].user_otp.user_id] =
                 [loc[p].user EXCEPT !.email_verified = TRUE]]
  /\ Reply(p, loc[p], Response(200, "OTP validated successful"))
  /\ UNCHANGED <<tokens, nextTokenId, otps, now>>

\* The database fails the statements of the atomic block: the block rolls back
\* (it has written nothing yet) and the exception leaves the handler.
ValidateOTP_fail(p) ==
  /\ pc[p] \in {"validate_fetch", "validate_save"}
  /\ Reply(p, loc[p], Response(500, "DatabaseError"))
  /\ UNCHANGED <<users, tokens, nextTokenId, otps, now>>

\* ---------------------------------------------------- change password
\* A handler that does not check the old password.
OldPasswordOk_always(user, old_password) == TRUE

\* user.check_password(old_password) on the row the request was authenticated with.
OldPasswordOk(user, old_password) == check_password(user.password, old_password)

\* CustomAuthentication + IsAuthenticated: request.user is loaded from the table.
ChangePassword_auth(p) ==
  \E u \in UserIds, old_password \in Passwords, new_password \in Passwords,
     valid \in BOOLEAN :
    /\ Idle(p)
    /\ Goto(p, "chpw_post",
            [op |-> "chpw", uid |-> u, user |-> users[u], valid |-> valid,
             old_password |-> old_password, new_password |-> new_password])
    /\ UNCHANGED <<users, tokens, nextTokenId, otps, now>>

\* ChangePasswordView.post: 400 on a malformed body or a wrong old password,
\* else set_password and save() of every column of request.user.
ChangePassword_post(p) ==
  /\ pc[p] = "chpw_post"
  /\ LET l == loc[p] IN
       CASE ~l.valid ->
              /\ Reply(p, l, Response(400, "serializer errors"))
              /\ UNCHANGED users
         [] l.valid /\ ~OldPasswordOk(l.user, l.old_password) ->
              /\ Reply(p, l, Response(400, "Incorrect old password."))
              /\ UNCHANGED users
         [] OTHER ->
              /\ users' = [users EXCEPT ![l.uid] =
                             [l.user EXCEPT !.password = set_password(l.new_password)]]
              /\ Reply(p, l, Response(200, "Password changed successfully."))
  /\ UNCHANGED <<tokens, nextTokenId, otps, now>>

\* ----------------------------------------------------- specifications
TokenStep(p, emails, maxId) ==
  \/ SignUp_post(p, emails, Only(Passwords), Only(OtpValues))
  \/ SignIn_authenticate(p, Emails, maxId)
  \/ SignIn_delete(p)
  \/ SignIn_create(p)
  \/ RefreshToken_get(p, MaxTime)
  \/ RefreshToken_save(p)

\* The requests served one after another.
NextToken == TickTo(MaxTime) \/ TokenStep("r1", Emails, MaxTokenId)

SpecToken == Init /\ [][NextToken]_vars

\* The requests served by concurrent threads within one minute, all for one
\* account.
NextTokenConc == \E p \in Procs : TokenStep(p, Only(Emails), MaxTokenId)

SpecTokenConc == Init /\ [][NextTokenConc]_vars

\* The requests served one after another within one minute, with room for one
\* more sign-in: no refresh value expires, so a replaced value is refused only
\* because it was replaced, and a pair can be replaced after two accounts have
\* each signed in.
NextRotate == TokenStep("r1", Emails, MaxTokenId + 1)

SpecRotate == Init /\ [][NextRotate]_vars

OtpStep(p, emails) ==
  \/ SignUp_post(p, emails, Only(Passwords), OtpValues)
  \/ ResendOTP_get(p, OtpValues)
  \/ ResendOTP_save(p)
  \/ ResendOTP_send(p)
  \/ ValidateOTP_get(p)
  \/ ValidateOTP_clear(p)
  \/ ValidateOTP_fetch(p)
  \/ ValidateOTP_save(p)

\* OTP requests served one after another.
NextOtp == TickTo(MaxOtpTime) \/ OtpStep("r1", Emails)

SpecOtp == Init /\ [][NextOtp]_vars

\* The same, with a database that may fail inside the atomic block.
NextOtpFault == NextOtp \/ ValidateOTP_fail("r1")

SpecOtpFault == Init /\ [][NextOtpFault]_vars

ValidateStep(p) ==
  \/ ValidateOTP_get(p)
  \/ ValidateOTP_clear(p)
  \/ ValidateOTP_fetch(p)
  \/ ValidateOTP_save(p)

\* Validation requests of two workers interleaved at every database operation;
\* each OTP record keeps the value its sign-up stored.
NextOtpConc ==
  \E p \in Procs :
    \/ SignUp_post(p, Emails, Only(Passwords), OtpValues)
    \/ ValidateStep(p)

SpecOtpConc == Init /\ [][NextOtpConc]_vars

ResendStep(p) ==
  \/ ResendOTP_get(p, OtpValues)
  \/ ResendOTP_save(p)
  \/ ResendOTP_send(p)

\* Every request of the account views, served one after another within one
\* minute; one account signs in, and refresh requests carry no cookie or a
\* value minted so far.
NextAccount ==
  \/ SignUp_post("r1", Emails, Only(Passwords), Only(OtpValues))
  \/ SignIn_authenticate("r1", Only(Emails), AccountSignIns)
  \/ SignIn_delete("r1")
  \/ SignIn_create("r1")
  \/ RefreshToken_get("r1", now)
  \/ RefreshToken_save("r1")
  \/ ResendStep("r1")
  \/ ValidateStep("r1")
  \/ ChangePassword_auth("r1")
  \/ ChangePassword_post("r1")

SpecAccount == Init /\ [][NextAccount]_vars

\* Validation and change-password requests of two workers for one account,
\* interleaved at every database operation.
NextUserConc ==
  \E p \in Procs :
    \/ SignUp_post(p, Only(Emails), Only(Passwords), Only(OtpValues))
    \/ ValidateStep(p)
    \/ ChangePassword_auth(p)
    \/ ChangePassword_post(p)

SpecUserConc == Init /\ [][NextUserConc]_vars

\* OTP requests served one after another within one minute, some accounts
\* created from the command line and so without an OTP record.
NextResend ==
  \/ SignUp_post("r1", Emails, Only(Passwords), OtpValues)
  \/ CreateSuperuser(Emails, Only(Passwords))
  \/ ResendStep("r1")
  \/ ValidateStep("r1")

SpecResend == Init /\ [][NextResend]_vars

PasswordStep(p, emails) ==
  \/ SignUp_post(p, emails, Passwords, Only(OtpValues))
  \/ SignIn_authenticate(p, Emails, MaxTokenId)
  \/ SignIn_delete(p)
  \/ SignIn_create(p)
  \/ ChangePassword_auth(p)
  \/ ChangePassword_post(p)

\* Password requests served one after another.
NextPassword == PasswordStep("r1", Emails)

SpecPassword == Init /\ [][NextPassword]_vars

\* ------------------------------------------------------------- claims
\* C1: when a sign-in with correct credentials completes, it answered 200, the
\* user owns exactly one Token row, that row is the one this sign-in inserted
\* (any earlier row is gone) and it holds the access token of the body and the
\* refresh token of the cookie.
C1_SignInLeavesOneRow ==
  (last.op = "signin" /\ last.loc.valid) =>
    \A u \in authenticate(last.loc.email, last.loc.password) :
      /\ last.resp.status = 200
      /\ Cardinality(RowsOf(u)) = 1
      /\ \A t \in RowsOf(u) :
           /\ t.id = nextTokenId - 1
           /\ t.access = last.resp.access_token
           /\ t.refresh = last.resp.cookie

\* A second sign-in of the only account has completed: its first row is replaced.
C1_Witness ==
  /\ last.op = "signin"
  /\ last.resp.status = 200
  /\ Len(users) = 1
  /\ nextTokenId = 3

\* C2: when a validate-OTP request that matched a record ends, it has either
\* both cleared the record and verified the owner, or done neither.
C2_ValidationAtomic ==
  (last.op = "validate" /\ "user_otp" \in DOMAIN last.loc) =>
    LET uid == last.loc.user_otp.user_id
        cleared == /\ last.loc.user_otp.generated_otp = NULL
                   /\ \E o \in otps : o.user_id = uid /\ o.generated_otp = NULL
        verified == last.resp.status = 200 /\ users[uid].email_verified
    IN cleared <=> verified

\* C3: a validate-OTP request that matches one record goes on to clear it and
\* verify the owner only when at most 5 minutes have passed since the record's
\* last update; when it is answered at the expiry check instead, more than 5
\* minutes have passed (never exactly 5), the answer is 400 'Expired OTP' and
\* neither the OTP table nor the users change.
C3_ExpiryWindow ==
  [][\A p \in Procs : \A o \in otps :
       LET elapsed == now - o.updated_at IN
       /\ (Idle(p) /\ pc'[p] = "validate_clear"
             /\ o.generated_otp = loc'[p].otp)
            => elapsed <= ExpMinutes
       /\ (Idle(p) /\ last'.op = "validate" /\ last'.proc = p /\ last'.loc.valid
             /\ o.generated_otp = last'.loc.otp
             /\ Cardinality({x \in otps : x.generated_otp = o.generated_otp}) = 1)
            => /\ elapsed > ExpMinutes
               /\ last'.resp.status = 400
               /\ last'.resp.message = "Expired OTP"
               /\ otps' = otps
               /\ users' = users
       /\ (pc[p] = "validate_save" /\ last'.op = "validate" /\ last'.proc = p
             /\ last'.resp.status = 200)
            => last'.loc.otp_time <= ExpMinutes]_vars

\* A validation accepted exactly 5 minutes after the record's last update.
C3_Witness ==
  /\ last.op = "validate"
  /\ last.resp.status = 200
  /\ last.loc.otp_time = ExpMinutes

\* C4: a well-formed validate-OTP request whose value no record holds answers
\* 404 'Invalid OTP' and changes no OTP record and no user.
C4_UnknownOtp ==
  [][\A p \in Procs :
       (Idle(p) /\ last'.op = "validate" /\ last'.proc = p /\ last'.loc.valid
          /\ \A o \in otps : o.generated_otp # last'.loc.otp)
         => /\ last'.resp.status = 404
            /\ last'.resp.message = "Invalid OTP"
            /\ otps' = otps
            /\ users' = users]_vars

\* A 404 answered while a record with another pending value exists.
C4_Witness ==
  /\ last.op = "validate"
  /\ last.resp.status = 404
  /\ \E o \in otps : o.generated_otp # NULL

\* C5: every validate-OTP request ends with 200, 400 or 404.
C5_ValidateStatuses ==
  last.op = "validate" => last.resp.status \in {200, 400, 404}

\* C6: the access token of a successful refresh embeds the id of the user who
\* owns the matched Token row.
C6_RefreshEmbedsOwner ==
  (last.op = "refresh" /\ last.resp.status = 200) =>
    last.resp.access_token.user_id = last.loc.owner

\* C7: a refresh request whose cookie no Token row holds, or whose cookie a row
\* holds but fails verification, answers 400 with no token in the body and no
\* cookie, and leaves the Token table as it was; no request goes on to save a
\* new pair for such a cookie.
C7_RefreshRejected ==
  [][\A p \in Procs :
       /\ (Idle(p) /\ last'.op = "refresh" /\ last'.proc = p /\ pc'[p] = "idle"
             /\ LET held == {t \in tokens : t.refresh = last'.loc.cookie} IN
                  \/ held = {}
                  \/ Cardinality(held) = 1 /\ ~verify_token(last'.loc.cookie, now))
            => /\ last'.resp.status = 400
               /\ last'.resp.access_token = NoAccess
               /\ last'.resp.cookie = NoCookie
               /\ tokens' = tokens
               /\ nextTokenId' = nextTokenId
       /\ (Idle(p) /\ pc'[p] = "refresh_save")
            => /\ \E t \in tokens : t.refresh = loc'[p].cookie
               /\ verify_token(loc'[p].cookie, now)]_vars

\* A refresh refused because the stored token no longer verifies.
C7_Witness ==
  /\ last.op = "refresh"
  /\ last.resp.status = 400
  /\ last.resp.message = "Refresh token invalid or expired."
  /\ \E t \in tokens : t.refresh = last.loc.cookie

\* C8: a change-password request with a wrong old password answers 400 and
\* leaves every user row as it was; a stored hash changes only in a
\* change-password request whose old password matches the stored hash.
C8_WrongOldPassword ==
  [][/\ \A p \in Procs :
          (pc[p] = "chpw_post" /\ pc'[p] = "idle" /\ loc[p].valid
             /\ ~check_password(users[loc[p].uid].password, loc[p].old_password))
            => /\ last'.resp.status = 400
               /\ users' = users
     /\ \A u \in UserIds :
          users'[u].password # users[u].password
            => \E p \in Procs :
                 /\ pc[p] = "chpw_post"
                 /\ loc[p].uid = u
                 /\ check_password(users[u].password, loc[p].old_password)]_vars

\* A change-password request refused for its old password.
C8_Witness ==
  /\ last.op = "chpw"
  /\ last.resp.status = 400
  /\ last.resp.message = "Incorrect old password."

\* C9: the Token table holds at most one row per user, whatever the
\* interleaving of the steps of sign-in and refresh requests.
C9_OneRowPerUser ==
  \A u \in UserIds : Cardinality(RowsOf(u)) <= 1

\* A sign-in is about to insert while the user already owns a row.
C9_Witness ==
  \E p \in Procs :
    /\ pc[p] = "signin_create"
    /\ RowsOf(loc[p].user) # {}

\* C10: when the dispatch of a resend-OTP request fails the request answers
\* 500 after one send_email call, and the record keeps the value and the
\* timestamp the request saved before the dispatch.
C10_DispatchFailure ==
  [][\A p \in Procs :
       (pc[p] = "resend_send" /\ last'.op = "resend" /\ last'.proc = p
          /\ last'.resp.status # 200)
         => /\ last'.resp.status = 500
            /\ last'.loc.sent = 1
            /\ otps' = otps
            /\ \E o \in otps' :
                 /\ o.user_id = loc[p].user_otp.user_id
                 /\ o.generated_otp = loc[p].otp
                 /\ o.updated_at = loc[p].user_otp.updated_at]_vars

\* A resend whose dispatch failed after the record was overwritten.
C10_Witness ==
  /\ last.op = "resend"
  /\ last.resp.status = 500
  /\ last.loc.sent = 1

\* C11: a well-formed sign-in whose e-mail and password match no user row
\* (unknown e-mail, or another password than the stored hash is of) answers 400
\* 'Invalid account credentials' with no token in the body and no cookie, and
\* leaves the Token table as it was; no such request goes on to delete a row.
C11_BadCredentials ==
  [][\A p \in Procs :
       LET matching(l) == {u \in UserIds : /\ users[u].email = l.email
                                           /\ users[u].password = set_password(l.password)}
       IN
       /\ (Idle(p) /\ last'.op = "signin" /\ last'.proc = p /\ last'.loc.valid
             /\ matching(last'.loc) = {})
            => /\ last'.resp.status = 400
               /\ last'.resp.message = "Invalid account credentials"
               /\ last'.resp.access_token = NoAccess
               /\ last'.resp.cookie = NoCookie
               /\ tokens' = tokens
               /\ nextTokenId' = nextTokenId
       /\ (Idle(p) /\ pc'[p] = "signin_delete") => matching(loc'[p]) # {}]_vars

\* A sign-in refused for its password while the named account owns a Token row.
C11_Witness ==
  /\ last.op = "signin"
  /\ last.resp.status = 400
  /\ last.resp.message = "Invalid account credentials"
  /\ \E u \in UsersByEmail(last.loc.email) : RowsOf(u) # {}

\* The refresh values a completed exchange replaced: the value a refresh matched
\* its row by, the values of the rows a sign-in deleted.
Replaced(exchange) ==
  CASE exchange.op = "refresh" /\ exchange.resp.status = 200 -> {exchange.loc.cookie}
    [] exchange.op = "signin" /\ exchange.resp.status = 200 -> exchange.loc.deleted
    [] OTHER -> {}

C13_SingleUse ==
  [][~(/\ last.op = "validate" /\ last.resp.status = 200
       /\ last'.op = "validate" /\ last'.resp.status = 200
       /\ last'.loc.user_otp.user_id = last.loc.user_otp.user_id
       /\ last'.loc.otp = last.loc.otp)]_vars

\* C14: the delete and the create of a sign-in are two steps: the delete leaves
\* the user no row; while the sign-in waits between the two, a row of the user
\* appears only through a concurrent sign-in that had also passed its delete, or
\* through a refresh saving the row it read before the delete; and the create
\* then attempted while the user owns a row raises IntegrityError and stores
\* nothing.
C14_DeleteThenCreate ==
  [][\A p \in Procs :
       LET rows == RowsOf(loc[p].user)
           rowsAfter == {t \in tokens' : t.user_id = loc[p].user} IN
       /\ (pc[p] = "signin_delete" /\ pc'[p] = "signin_create") => rowsAfter = {}
       /\ (pc[p] = "signin_create" /\ pc'[p] = "signin_create"
             /\ rows = {} /\ rowsAfter # {})
            => \E q \in Procs \ {p} :
                 /\ last'.op \in {"signin", "refresh"}
                 /\ last'.proc = q
                 /\ last'.resp.status = 200
                 /\ pc[q] = "signin_create" => loc[q].user = loc[p].user
                 /\ pc[q] = "refresh_save" => loc[q].owner = loc[p].user
       /\ (pc[p] = "signin_create" /\ pc'[p] = "idle" /\ rows # {})
            => /\ last'.resp.status = 500
               /\ last'.resp.message = "IntegrityError"
               /\ tokens' = tokens]_vars

\* Both sign-ins of one account deleted before either created: one has just
\* created the row and returned 200, the other is about to create.
C14_Witness ==
  \E p \in Procs :
    /\ pc[p] = "signin_create"
    /\ last.op = "signin"
    /\ last.proc # p
    /\ last.resp.status = 200
    /\ last.loc.user = loc[p].user
    /\ RowsOf(loc[p].user) = {t \in tokens : t.refresh = last.resp.cookie}

OtpRowsOf(rows, u) == {o \in rows : o.user_id = u}

\* C15: a user row is created with email_verified False; over every step of
\* sign-in, refresh, resend-OTP, validate-OTP and change-password requests it
\* turns True only in the step in which a validate-OTP request returns 200
\* after matching the OTP record that user owns; and no step of a validate-OTP
\* request changes another user's row or OTP record.
C15_VerifiedOnlyByValidate ==
  [][/\ \A u \in 1..Len(users') :
         /\ u > Len(users) => ~users'[u].email_verified
         /\ (u <= Len(users) /\ ~users[u].email_verified /\ users'[u].email_verified)
              => /\ last'.op = "validate"
                 /\ last'.resp.status = 200
                 /\ last'.loc.user_otp.user_id = u
                 /\ pc[last'.proc] = "validate_save"
     /\ \A p \in Procs :
         /\ (Idle(p) /\ (pc'[p] = "validate_clear"
                           \/ (last'.op = "validate" /\ last'.proc = p)))
              => users' = users /\ otps' = otps
         /\ pc[p] \in {"validate_clear", "validate_fetch", "validate_save"}
              => \A u \in UserIds \ {loc[p].user_otp.user_id} :
                   /\ users'[u] = users[u]
                   /\ OtpRowsOf(otps', u) = OtpRowsOf(otps, u)]_vars

\* A validation has just verified one user while another user stays
\* unverified with an OTP value on record.
C15_Witness ==
  /\ last.op = "validate"
  /\ last.resp.status = 200
  /\ users[last.loc.user_otp.user_id].email_verified
  /\ \E u \in UserIds \ {last.loc.user_otp.user_id} :
       /\ ~users[u].email_verified
       /\ \E o \in OtpRowsOf(otps, u) : o.generated_otp # NULL

HeldOtp(rows, v) == \E o \in rows : o.generated_otp = v

\* C16: the save of a resend-OTP request stores the new value and stamps the
\* record with the time of the save, whatever value and age the record had, and
\* touches no other record; a validate-OTP request for the value one record
\* holds passes the expiry check exactly when at most 5 minutes have passed
\* since that stamp; the previous value, when it differs from the new one and
\* no other record holds it, is held by no record after the save; a value no
\* record holds is stored again only by a sign-up or a resend that draws it;
\* and a validate-OTP request for a value no record holds is answered 404.
C16_ResendRestarts ==
  [][/\ \A p \in Procs :
         /\ (pc[p] = "resend_save" /\ pc'[p] = "resend_send")
              => LET u == loc[p].user_otp.user_id
                     old == loc[p].previous.generated_otp IN
                 /\ OtpRowsOf(otps', u)
                      = {[user_id |-> u, generated_otp |-> loc[p].otp,
                          updated_at |-> now]}
                 /\ \A w \in UserIds \ {u} : OtpRowsOf(otps', w) = OtpRowsOf(otps, w)
                 /\ (old # loc[p].otp /\ \A o \in otps : o.generated_otp = old => o.user_id = u)
                      => ~HeldOtp(otps', old)
         /\ (Idle(p) /\ (pc'[p] = "validate_clear"
                           \/ (last'.op = "validate" /\ last'.proc = p /\ last'.loc.valid)))
              => LET otp == IF pc'[p] = "validate_clear" THEN loc'[p].otp
                                                        ELSE last'.loc.otp
                     found == {o \in otps : o.generated_otp = otp} IN
                 /\ \A o \in found :
                      found = {o}
                        => (pc'[p] = "validate_clear" <=> now - o.updated_at <= ExpMinutes)
                 /\ found = {} => (pc'[p] = "idle" /\ last'.resp.status = 404)
     /\ \A v \in OtpValues :
         (~HeldOtp(otps, v) /\ HeldOtp(otps', v))
           => \/ Len(users') > Len(users)
              \/ \E p \in Procs :
                   pc[p] = "resend_save" /\ pc'[p] = "resend_send" /\ loc[p].otp = v]_vars

\* A resend has saved a new value over a different one that had expired, and no
\* record holds the previous value any more.
C16_Witness ==
  \E p \in Procs :
    /\ pc[p] = "resend_send"
    /\ loc[p].previous.generated_otp \notin {NULL, loc[p].otp}
    /\ loc[p].user_otp.updated_at - loc[p].previous.updated_at > ExpMinutes
    /\ loc[p].user_otp \in otps
    /\ ~HeldOtp(otps, loc[p].previous.generated_otp)

\* The user a completed validate-OTP or change-password exchange saved.
SavedUser(exchange) ==
  IF exchange.op = "validate" THEN exchange.loc.user_otp.user_id ELSE exchange.loc.uid

\* C17: when a change-password request and a validate-OTP request for the same
\* user overlap and both return 200, the stored user row has email_verified
\* True and the hash of the new password; stated at the return of the second
\* request, which directly follows the return of the first.
C17_NeitherWriteLost ==
  [][(/\ last.op \in {"validate", "chpw"} /\ last.resp.status = 200
      /\ last'.op \in {"validate", "chpw"} /\ last'.resp.status = 200
      /\ last'.op # last.op
      /\ SavedUser(last') = SavedUser(last))
       => LET chpw == IF last.op = "chpw" THEN last ELSE last'
              user == users'[SavedUser(last)] IN
          /\ user.email_verified
          /\ user.password = set_password(chpw.loc.new_password)]_vars

OtpOwners(rows) == {o.user_id : o \in rows}

\* C18: a well-formed resend-OTP request for an e-mail no OTP record belongs to
\* (no user has the address, or the user has no record) answers 404 'Email not
\* associated to user or otp' with no dispatch and the OTP table unchanged, and
\* never reaches the save; and no step of a resend-OTP or validate-OTP request
\* changes the number of OTP records or the users that own one.
C18_ResendCreatesNoRecord ==
  [][\A p \in Procs :
       LET norecord(email) == \A o \in otps : o.user_id \notin UsersByEmail(email) IN
       /\ (Idle(p) /\ last'.op = "resend" /\ last'.proc = p /\ last'.loc.valid
             /\ norecord(last'.loc.email))
            => /\ last'.resp.status = 404
               /\ last'.resp.message = "Email not associated to user or otp"
               /\ last'.loc.sent = 0
               /\ otps' = otps
       /\ (Idle(p) /\ pc'[p] = "resend_save") => ~norecord(loc'[p].email)
       /\ (\/ pc[p] # pc'[p] /\ {pc[p], pc'[p]} \cap {"resend_save", "resend_send",
                 "validate_clear", "validate_fetch", "validate_save"} # {}
           \/ Idle(p) /\ last'.op \in {"resend", "validate"} /\ last'.proc = p)
            => /\ Cardinality(otps') = Cardinality(otps)
               /\ OtpOwners(otps') = OtpOwners(otps)]_vars

\* A resend answered 404 for the address of a user who has no OTP record.
C18_Witness ==
  /\ last.op = "resend"
  /\ last.resp.status = 404
  /\ UsersByEmail(last.loc.email) # {}
  /\ otps # {}

====
